---- MODULE Spec2Model ----
(***************************************************************************)
(* InstructorRequestFormComponent (instructor-request-form.component.ts):  *)
(* the instructor account request form.  The state is the component's      *)
(* fields, the controls of the form group arf, the createAccountRequest    *)
(* calls awaiting their response, and a record of what the last handler    *)
(* call did to the outside (requests sent, events emitted, confirm and     *)
(* navigate calls).                                                        *)
(*                                                                         *)
(* Text values are sequences of one-character strings, so that trim, the   *)
(* validators and the concatenation work on characters.                    *)
(***************************************************************************)
EXTENDS Integers, Sequences, FiniteSets, TLC

VARIABLES
    captchaSiteKey,      \* environment.captchaSiteKey; "" when no CAPTCHA is configured
    isCaptchaSuccessful,
    captchaResponse,     \* Undefined, or the token last handed over
    value,               \* value of each control of arf
    dirty,               \* dirty flag of each control of arf
    hasSubmitAttempt,
    isLoading,
    serverErrorMessage,
    inflight,            \* subscriptions of createAccountRequest awaiting a response, in sending order
    last,                \* what the last handler call did
    errSinceSubmit       \* history: the error response received since the last onSubmit call, if any

vars == <<captchaSiteKey, isCaptchaSuccessful, captchaResponse, value, dirty,
          hasSubmitAttempt, isLoading, serverErrorMessage, inflight, last,
          errSinceSubmit>>

-----------------------------------------------------------------------------
(* Bounds *)

MaxInFlight == 2

-----------------------------------------------------------------------------
(* Text *)

Alnum == {"a", "b", "c", "d"}

Whitespace == {" "}

\* String.prototype.trim: drops the whitespace at both ends
RECURSIVE TrimStart(_)
TrimStart(s) ==
    IF s # << >> /\ Head(s) \in Whitespace THEN TrimStart(Tail(s)) ELSE s

RECURSIVE TrimEnd(_)
TrimEnd(s) ==
    IF s # << >> /\ s[Len(s)] \in Whitespace
    THEN TrimEnd(SubSeq(s, 1, Len(s) - 1))
    ELSE s

Trim(s) == TrimEnd(TrimStart(s))

-----------------------------------------------------------------------------
(* FormValidator: the limits and patterns of types/form-validator.  The    *)
(* lengths are small stand-ins, so that the inputs below reach them.       *)

STUDENT_NAME_MAX_LENGTH == 4
INSTITUTION_NAME_MAX_LENGTH == 4
COUNTRY_NAME_MAX_LENGTH == 4
EMAIL_MAX_LENGTH == 6

\* a name starts with a letter or digit and holds no '|' and no '%'
NAME_REGEX(s) ==
    /\ s # << >>
    /\ s[1] \in Alnum
    /\ \A i \in 1..Len(s) : s[i] \notin {"|", "%"}

\* local@label.label, each part a non-empty run of word characters
EMAIL_REGEX(s) ==
    \E at \in 1..Len(s) : \E dot \in (at + 1)..Len(s) :
        /\ s[at] = "@"
        /\ s[dot] = "."
        /\ at > 1 /\ dot > at + 1 /\ dot < Len(s)
        /\ \A i \in 1..Len(s) : i \notin {at, dot} => s[i] \in Alnum

-----------------------------------------------------------------------------
(* Validators of @angular/forms, as the form group uses them *)

\* Validators.required: a string control fails when it is empty
Required(v) == Len(v) # 0

\* Validators.maxLength
MaxLength(v, max) == Len(v) <= max

\* Validators.pattern: an empty value passes, otherwise the match decides
Pattern(v, matches) == Len(v) = 0 \/ matches

Controls == {"name", "institution", "country", "email", "comments", "recaptcha"}

\* the validators of each control of arf; comments and recaptcha have none
ControlValid(c, v) ==
    CASE c = "name" ->
            Required(v) /\ MaxLength(v, STUDENT_NAME_MAX_LENGTH) /\ Pattern(v, NAME_REGEX(v))
      [] c = "institution" ->
            Required(v) /\ MaxLength(v, INSTITUTION_NAME_MAX_LENGTH) /\ Pattern(v, NAME_REGEX(v))
      [] c = "country" ->
            Required(v) /\ MaxLength(v, COUNTRY_NAME_MAX_LENGTH) /\ Pattern(v, NAME_REGEX(v))
      [] c = "email" ->
            Required(v) /\ Pattern(v, EMAIL_REGEX(v)) /\ MaxLength(v, EMAIL_MAX_LENGTH)
      [] OTHER -> TRUE

\* arf.invalid: some control of the group fails a validator
arfInvalid == \E c \in Controls : ~ControlValid(c, value[c])

-----------------------------------------------------------------------------
(* Inputs *)

\* what the user can type into each control
Inputs(c) ==
    CASE c = "name"        -> { <<"a", " ">>, <<"|", "a">> }
      [] c = "institution" -> { <<"b", " ">>, <<"b", "b", "b", "b", "b">> }
      [] c = "country"     -> { <<"c">> }
      [] c = "email"       -> { <<"a", "@", "b", ".", "c">>, <<"a", "@">> }
      [] c = "comments"    -> { <<" ">>, <<" ", "d", " ">> }
      [] c = "recaptcha"   -> { <<"t">> }

\* the tokens the reCAPTCHA widget can hand over
Tokens == {"t1", "t2"}

\* the messages an error response can carry
Messages == {"e1", "e2"}

SiteKeys == {"", "site-key"}

\* the value of a field that was never assigned
Undefined == "<undefined>"

HomeRoute == "/web/front/home"

-----------------------------------------------------------------------------
(* State after construction *)

\* a handler call that did nothing to the outside: no request sent, no event
\* emitted, no confirm() asked (confirmed is << >>, else the answer), no navigation
NoCall == [op |-> "none", blocked |-> FALSE, sent |-> << >>, emitted |-> << >>,
           asked |-> FALSE, confirmed |-> << >>, navigate |-> << >>]

Init ==
    /\ captchaSiteKey \in SiteKeys
    /\ isCaptchaSuccessful = FALSE
    /\ captchaResponse = Undefined
    /\ value = [c \in Controls |-> << >>]
    /\ dirty = [c \in Controls |-> FALSE]
    /\ hasSubmitAttempt = FALSE
    /\ isLoading = FALSE
    /\ serverErrorMessage = ""
    /\ inflight = << >>
    /\ last = NoCall
    /\ errSinceSubmit = << >>

canSubmit == ~isLoading

-----------------------------------------------------------------------------
(* The user edits a control: the control takes the value and becomes dirty. *)
(* With updateOn: 'submit' the form applies the edits of a control when the *)
(* form is submitted, right before onSubmit runs; here an edit may land at  *)
(* any time, which includes those moments.                                  *)

setValue(c, v) ==
    /\ value' = [value EXCEPT ![c] = v]
    /\ dirty' = [dirty EXCEPT ![c] = TRUE]
    /\ last' = [NoCall EXCEPT !.op = "setValue"]
    /\ UNCHANGED <<captchaSiteKey, isCaptchaSuccessful, captchaResponse,
                   hasSubmitAttempt, isLoading, serverErrorMessage, inflight,
                   errSinceSubmit>>

handleCaptchaSuccess(token) ==
    /\ isCaptchaSuccessful' = TRUE
    /\ captchaResponse' = token
    /\ last' = [NoCall EXCEPT !.op = "handleCaptchaSuccess"]
    /\ UNCHANGED <<captchaSiteKey, value, dirty, hasSubmitAttempt, isLoading,
                   serverErrorMessage, inflight, errSinceSubmit>>

-----------------------------------------------------------------------------
(* onSubmit *)

\* truthiness of an optional string
Truthy(s) == s \notin {"", Undefined}

ShouldBlock_NoCaptchaCheck == arfInvalid

\* the condition of the early return
ShouldBlock == arfInvalid \/ (Truthy(captchaSiteKey) /\ ~Truthy(captchaResponse))

IsLoadingAfterBlock_NotReset == TRUE

\* isLoading as the early return leaves it
IsLoadingAfterBlock == FALSE

CombinedInstitution_CountryFirst(institution, country) ==
    country \o <<",", " ">> \o institution

CombinedInstitution(institution, country) ==
    institution \o <<",", " ">> \o country

RequestData_AlwaysComments(name, email, combinedInstitution, comments) ==
    [instructorEmail |-> email,
     instructorName |-> name,
     instructorInstitution |-> combinedInstitution,
     captchaResponse |-> IF Truthy(captchaSiteKey) THEN captchaResponse ELSE "",
     instructorComments |-> comments]

\* the AccountCreateRequest; instructorComments is present only when comments is non-empty
RequestData(name, email, combinedInstitution, comments) ==
    IF comments # << >>
    THEN [instructorEmail |-> email,
          instructorName |-> name,
          instructorInstitution |-> combinedInstitution,
          captchaResponse |-> IF Truthy(captchaSiteKey) THEN captchaResponse ELSE "",
          instructorComments |-> comments]
    ELSE [instructorEmail |-> email,
          instructorName |-> name,
          instructorInstitution |-> combinedInstitution,
          captchaResponse |-> IF Truthy(captchaSiteKey) THEN captchaResponse ELSE ""]

\* the subscription: the constants its callbacks close over.  form and latest
\* are history: the control values the call read, and whether no request was
\* sent after this one.
Subscription(name, institution, country, email, comments) ==
    [name |-> name, institution |-> institution, country |-> country,
     email |-> email, comments |-> comments,
     form |-> value, latest |-> TRUE]

onSubmitBlocked ==
    /\ ShouldBlock
    /\ hasSubmitAttempt' = TRUE
    /\ serverErrorMessage' = ""
    /\ isLoading' = IsLoadingAfterBlock
    /\ last' = [NoCall EXCEPT !.op = "onSubmit", !.blocked = TRUE]
    /\ errSinceSubmit' = << >>
    /\ UNCHANGED <<captchaSiteKey, isCaptchaSuccessful, captchaResponse, value,
                   dirty, inflight>>

onSubmitSend ==
    /\ ~ShouldBlock
    /\ Len(inflight) < MaxInFlight
    /\ LET name == Trim(value["name"])
           email == Trim(value["email"])
           comments == Trim(value["comments"])
           country == Trim(value["country"])
           institution == Trim(value["institution"])
           combinedInstitution == CombinedInstitution(institution, country)
           requestData == RequestData(name, email, combinedInstitution, comments)
       IN /\ inflight' =
                [i \in 1..Len(inflight) |-> [inflight[i] EXCEPT !.latest = FALSE]]
                \o << Subscription(name, institution, country, email, comments) >>
          /\ last' = [NoCall EXCEPT !.op = "onSubmit", !.sent = <<requestData>>]
    /\ hasSubmitAttempt' = TRUE
    /\ isLoading' = TRUE
    /\ serverErrorMessage' = ""
    /\ errSinceSubmit' = << >>
    /\ UNCHANGED <<captchaSiteKey, isCaptchaSuccessful, captchaResponse, value,
                   dirty>>

onSubmit == onSubmitBlocked \/ onSubmitSend

-----------------------------------------------------------------------------
(* The response of createAccountRequest *)

Remove(s, i) == SubSeq(s, 1, i - 1) \o SubSeq(s, i + 1, Len(s))

SubmissionEvent_CurrentValues(sub) ==
    [name |-> Trim(value["name"]),
     institution |-> Trim(value["institution"]),
     country |-> Trim(value["country"]),
     email |-> Trim(value["email"]),
     comments |-> Trim(value["comments"])]

\* the InstructorRequestFormModel the next callback emits
SubmissionEvent(sub) ==
    [name |-> sub.name,
     institution |-> sub.institution,
     country |-> sub.country,
     email |-> sub.email,
     comments |-> sub.comments]

ErrorMessageShown_Generic(resp) == "error"

\* what the error callback stores
ErrorMessageShown(resp) == resp.error.message

\* next, then finalize
responseSuccess(i) ==
    /\ i \in 1..Len(inflight)
    /\ last' = [NoCall EXCEPT !.op = "next",
                              !.emitted = <<SubmissionEvent(inflight[i])>>]
    /\ isLoading' = FALSE
    /\ inflight' = Remove(inflight, i)
    /\ UNCHANGED <<captchaSiteKey, isCaptchaSuccessful, captchaResponse, value,
                   dirty, hasSubmitAttempt, serverErrorMessage, errSinceSubmit>>

\* error, then finalize
responseError(i, resp) ==
    /\ i \in 1..Len(inflight)
    /\ serverErrorMessage' = ErrorMessageShown(resp)
    /\ last' = [NoCall EXCEPT !.op = "error"]
    /\ isLoading' = FALSE
    /\ errSinceSubmit' = << [message |-> resp.error.message,
                             latest |-> inflight[i].latest] >>
    /\ inflight' = Remove(inflight, i)
    /\ UNCHANGED <<captchaSiteKey, isCaptchaSuccessful, captchaResponse, value,
                   dirty, hasSubmitAttempt>>

-----------------------------------------------------------------------------
(* onCancel *)

IsFormDirty_FieldsOnly == \E c \in Controls \ {"recaptcha"} : dirty[c]

IsFormDirty == \E c \in Controls : dirty[c]

\* confirmed is the user's answer to confirm(), asked only when the form is dirty
onCancel(confirmed) ==
    /\ last' = [NoCall EXCEPT !.op = "onCancel",
                              !.asked = IsFormDirty,
                              !.confirmed = IF IsFormDirty THEN <<confirmed>> ELSE << >>,
                              !.navigate = IF IsFormDirty /\ ~confirmed
                                           THEN << >>
                                           ELSE <<HomeRoute>>]
    /\ UNCHANGED <<captchaSiteKey, isCaptchaSuccessful, captchaResponse, value,
                   dirty, hasSubmitAttempt, isLoading, serverErrorMessage,
                   inflight, errSinceSubmit>>

-----------------------------------------------------------------------------

Next ==
    \/ \E c \in Controls : \E v \in Inputs(c) : setValue(c, v)
    \/ \E token \in Tokens : handleCaptchaSuccess(token)
    \/ onSubmit
    \/ \E i \in 1..MaxInFlight : responseSuccess(i)
    \/ \E i \in 1..MaxInFlight : \E m \in Messages :
           responseError(i, [error |-> [message |-> m]])
    \/ \E confirmed \in BOOLEAN : onCancel(confirmed)

Spec == Init /\ [][Next]_vars

-----------------------------------------------------------------------------
(* Properties *)

\* t is s without the whitespace at its two ends
IsTrimOf(t, s) ==
    \E i \in 1..(Len(s) + 1) : \E j \in 0..Len(s) :
        /\ t = SubSeq(s, i, j)
        /\ \A k \in 1..Len(s) : (k < i \/ k > j) => s[k] \in Whitespace
        /\ t # << >> => (t[1] \notin Whitespace /\ t[Len(t)] \notin Whitespace)
        /\ t = << >> => \A k \in 1..Len(s) : s[k] \in Whitespace

ValidatedControls == {"name", "institution", "country", "email"}

\* the form group is invalid, or a CAPTCHA is required and no token was received
MustBlock ==
    \/ \E c \in ValidatedControls : ~ControlValid(c, value[c])
    \/ (captchaSiteKey # "" /\ captchaResponse = Undefined)

\* C1: an onSubmit call made while the form group is invalid, or while a
\* CAPTCHA site key is configured and no token has been received, makes no
\* createAccountRequest call.
C1_BlockedSubmitSendsNothing ==
    [][(last'.op = "onSubmit" /\ MustBlock)
          => (last'.sent = << >> /\ inflight' = inflight)]_vars

C1_Witness ==
    /\ last.op = "onSubmit"
    /\ last.sent = << >>
    /\ \A c \in ValidatedControls : ControlValid(c, value[c])
    /\ captchaSiteKey # ""
    /\ captchaResponse = Undefined

\* C2: at most one createAccountRequest is in flight at any time.
C2_AtMostOneInFlight == Len(inflight) <= 1

\* C3: the payload of every request onSubmit sends has instructorInstitution
\* equal to trim(institution), ", ", trim(country), and instructorName and
\* instructorEmail equal to the trimmed name and email, of the control values
\* at the time of the call.
C3_PayloadCombinesInstitutionAndCountry ==
    [][(last'.op = "onSubmit" /\ last'.sent # << >>)
          => /\ Len(last'.sent) = 1
             /\ LET combined == last'.sent[1].instructorInstitution
                IN \E n \in 0..Len(combined) :
                      /\ IsTrimOf(SubSeq(combined, 1, n), value["institution"])
                      /\ SubSeq(combined, n + 1, n + 2) = <<",", " ">>
                      /\ IsTrimOf(SubSeq(combined, n + 3, Len(combined)),
                                  value["country"])
             /\ IsTrimOf(last'.sent[1].instructorName, value["name"])
             /\ IsTrimOf(last'.sent[1].instructorEmail, value["email"])]_vars

C3_Witness ==
    /\ last.op = "onSubmit"
    /\ last.sent # << >>
    /\ value["institution"] = <<"b", " ">>
    /\ value["country"] = <<"c">>
    /\ last.sent[1].instructorInstitution = <<"b", ",", " ", "c">>

\* C4: requestSubmissionEvent is emitted exactly once by each success
\* response, with the trimmed control values that the onSubmit call which sent
\* the request read (institution and country separate), and by nothing else.
C4_EventCarriesSubmittedValues ==
    [][/\ last'.op = "next" =>
            \E k \in 1..Len(inflight) :
               /\ inflight' = Remove(inflight, k)
               /\ Len(last'.emitted) = 1
               /\ DOMAIN last'.emitted[1] =
                     {"name", "institution", "country", "email", "comments"}
               /\ \A c \in DOMAIN last'.emitted[1] :
                     IsTrimOf(last'.emitted[1][c], inflight[k].form[c])
       /\ last'.op # "next" => last'.emitted = << >>]_vars

C4_Witness ==
    /\ last.op = "next"
    /\ last.emitted # << >>
    /\ last.emitted[1].comments = <<"d">>
    /\ value["comments"] = <<" ">>

\* C5: after an error response carrying message m, serverErrorMessage is m;
\* a success response leaves serverErrorMessage as it was.
C5_ServerErrorMessageVerbatim ==
    [][/\ last'.op = "error" =>
            /\ errSinceSubmit' # << >>
            /\ serverErrorMessage' = errSinceSubmit'[1].message
       /\ last'.op = "next" => serverErrorMessage' = serverErrorMessage]_vars

C5_Witness ==
    /\ last.op = "error"
    /\ serverErrorMessage \in Messages
    /\ errSinceSubmit # << >>
    /\ errSinceSubmit[1].message = serverErrorMessage

\* C6: onCancel asks for confirmation exactly when some control is dirty,
\* navigates to the home route exactly when no control is dirty or the user
\* confirms, and changes nothing of the component and sends no request.
C6_CancelConfirmsOnlyWhenDirty ==
    [][last'.op = "onCancel" =>
          LET anyDirty == \E c \in Controls : dirty[c]
          IN /\ last'.asked <=> anyDirty
             /\ last'.navigate \in {<< >>, <<HomeRoute>>}
             /\ last'.navigate = <<HomeRoute>>
                   <=> (~anyDirty \/ last'.confirmed = <<TRUE>>)
             /\ last'.sent = << >>
             /\ UNCHANGED <<value, dirty, isLoading, hasSubmitAttempt,
                            serverErrorMessage, captchaResponse,
                            isCaptchaSuccessful, inflight>>]_vars

C6_Witness ==
    /\ last.op = "onCancel"
    /\ last.asked
    /\ last.confirmed = <<FALSE>>
    /\ last.navigate = << >>
    /\ dirty["recaptcha"]
    /\ \A c \in Controls \ {"recaptcha"} : ~dirty[c]

\* C7: when a blocked onSubmit returns, serverErrorMessage is empty, isLoading
\* is false, hasSubmitAttempt is true and no event was emitted.
C7_BlockedSubmitIsSilent ==
    (last.op = "onSubmit" /\ MustBlock)
        => /\ serverErrorMessage = ""
           /\ isLoading = FALSE
           /\ hasSubmitAttempt = TRUE
           /\ last.emitted = << >>

C7_Witness ==
    /\ last.op = "onSubmit"
    /\ \E c \in ValidatedControls : ~ControlValid(c, value[c])
    /\ inflight # << >>
    /\ ~isLoading

\* C8: the payload holds instructorComments exactly when the trimmed comments
\* are non-empty, and then they are its value; its captchaResponse is the
\* token last received when a site key is configured, and empty otherwise.
C8_PayloadOptionalParts ==
    [][(last'.op = "onSubmit" /\ last'.sent # << >>)
          => LET p == last'.sent[1]
                 blank == \A k \in 1..Len(value["comments"]) :
                             value["comments"][k] \in Whitespace
             IN /\ "instructorComments" \in DOMAIN p <=> ~blank
                /\ "instructorComments" \in DOMAIN p
                      => IsTrimOf(p.instructorComments, value["comments"])
                /\ p.captchaResponse =
                      IF captchaSiteKey # "" THEN captchaResponse ELSE ""]_vars

C8_Witness ==
    /\ last.op = "onSubmit"
    /\ last.sent # << >>
    /\ value["comments"] = <<" ">>
    /\ "instructorComments" \notin DOMAIN last.sent[1]
    /\ captchaSiteKey # ""
    /\ last.sent[1].captchaResponse = "t2"

\* C9: isLoading is true exactly while a sent request awaits its response.
C9_LoadingTracksInFlight == isLoading <=> inflight # << >>

\* C10: a non-empty serverErrorMessage is the message of an error response to
\* the most recently sent request, received after the last onSubmit call.
C10_ErrorIsOfLatestRequest ==
    serverErrorMessage # ""
        => /\ errSinceSubmit # << >>
           /\ errSinceSubmit[1].message = serverErrorMessage
           /\ errSinceSubmit[1].latest

====
